---- MODULE Spec2Model ----
(***************************************************************************)
(* Gate redemption protocol of parchii: POST /api/gate/scan,                *)
(* POST /api/gate/verify and PATCH /api/tickets/[id]/update-status over the *)
(* Ticket and GateVerification tables.                                      *)
(*                                                                          *)
(* Encoding of JavaScript values:                                           *)
(*   ticket ids, event ids, verification ids: positive integers, 0 = absent *)
(*   payload.v : 0 = absent, -1 = the number 0, n > 0 = the number n       *)
(*   payload.t : 0 = absent, n > 0 = the number n, n < 0 = the string that  *)
(*               is the ticket id -n                                        *)
(*   strings of asset keys: sequences of 8-character chunks, <<>> = absent  *)
(*   payload.ts: -1 = absent, otherwise a number of time units              *)
(*   payload.c : -1 = absent, otherwise the 4-hex-character digest          *)
(*   scheme    : whether the scanned text is "parchi:" + base64url(JSON)     *)
(*               rather than the JSON text itself                           *)
(***************************************************************************)
EXTENDS Integers, Sequences, FiniteSets, Bags, TLC

VARIABLES tickets, gv, lock, now, inflight, calls, last, okCount, okByVid,
          ledger, sale, client

vars == <<tickets, gv, lock, now, inflight, calls, last, okCount, okByVid,
          ledger, sale, client>>

(* ---------------------------- bounds ----------------------------------- *)
NProcs == 2
MaxCalls == 3
MaxNow == 3
HashMod == 5
NBuyers == 2
MaxPurchases == 4
MaxFlows == 2

(* ------------------------ program constants ---------------------------- *)
\* time unit of the model = the maximum age of a QR code (one year)
maxAge == 1
\* maxScansPerMinute of checkStaffRateLimit
DefaultMaxScans == 10
\* characters per chunk of an asset key; the QR carries the first chunk
ChunkChars == 8
\* asset keys of at most this many characters are looked up by prefix
ShortMintChars == 16

(* --------------------------- directory --------------------------------- *)
TicketIds == {1, 2}
Events == {1, 2}
\* identifiers that match no row
BogusTicket == Cardinality(TicketIds) + 1
BogusEvent == Cardinality(Events) + 1
BogusVid == MaxCalls + 1
\* Number("<ticket id>")
NaN == 0 - 1
\* the version number 0 of a payload
VZero == 0 - 1
\* x && ... for a version: absent and 0 are falsy
Truthy(x) == x > 0

TicketStatus == {"ACTIVE", "USED", "CANCELLED", "REFUNDED"}

\* Ticket.eventId and Ticket.mintPubkey never change after creation
TicketEvent(t) == t
TicketMint(t) == IF t = 1 THEN <<1, 3, 4>> ELSE <<1, 5, 6>>
\* ticket number and issue time given to generateTicketQR at purchase
TicketNumber(t) == 6 + t
IssuedAt(t) == 3 - t
\* the clock when the gate opens
StartTime == IssuedAt(1)

(* ---------------------------- QR payloads ------------------------------ *)
RECURSIVE SumSeq(_)
SumSeq(s) == IF s = <<>> THEN 0 ELSE Head(s) + SumSeq(Tail(s))

\* assetPubkey.slice(0, 8)
Prefix8(mint) == IF Len(mint) >= 1 THEN SubSeq(mint, 1, 1) ELSE mint

\* String.prototype.startsWith
StartsWith(s, pre) == Len(pre) <= Len(s) /\ SubSeq(s, 1, Len(pre)) = pre

\* String.prototype.toLowerCase on chunks: chunk 2 is chunk 1 in upper case
LowerChunk(c) == IF c = 2 THEN 1 ELSE c
Lower(s) == [i \in 1..Len(s) |-> LowerChunk(s[i])]

\* sha256(`${eventId}:${ticketNumber}:${assetPubkey}:${timestamp}`).slice(0,4)
\* as a digest with collisions: a mix of the four inputs modulo HashMod
calculateChecksum(eventId, ticketNumber, assetPubkey, timestamp) ==
    (3 * eventId + 5 * ticketNumber + 7 * SumSeq(assetPubkey) + 11 * timestamp) % HashMod

\* the scan route's own copy of the digest
calculateChecksumServer(eventId, ticketNumber, assetPubkey, timestamp) ==
    (3 * eventId + 5 * ticketNumber + 7 * SumSeq(assetPubkey) + 11 * timestamp) % HashMod

NoQr == [scheme |-> FALSE, json |-> TRUE, v |-> 0, e |-> 0, t |-> 0, a |-> <<>>, m |-> <<>>, ts |-> -1, c |-> -1]

\* generateTicketQR with the whole asset key in the payload
encodeTicketQRWholeKey(eventId, ticketNumber, assetPubkey, timestamp) ==
    [scheme |-> TRUE, json |-> TRUE, v |-> 1, e |-> eventId, t |-> ticketNumber,
     a |-> assetPubkey, m |-> <<>>, ts |-> timestamp,
     c |-> calculateChecksum(eventId, ticketNumber, assetPubkey, timestamp)]

\* "parchi:" + base64url(JSON of the payload with its checksum), for the
\* arguments of generateTicketQR and its reading of the clock
encodeTicketQR(eventId, ticketNumber, assetPubkey, timestamp) ==
    [scheme |-> TRUE, json |-> TRUE, v |-> 1, e |-> eventId, t |-> ticketNumber,
     a |-> Prefix8(assetPubkey), m |-> <<>>, ts |-> timestamp,
     c |-> calculateChecksum(eventId, ticketNumber, assetPubkey, timestamp)]

\* the payload that generateTicketQR built for ticket t at purchase
generateTicketQR(t) ==
    encodeTicketQR(TicketEvent(t), TicketNumber(t), TicketMint(t), IssuedAt(t))

\* parseQRCode: the error it throws, "none" when it returns the payload
parseQRCode(q) ==
    IF ~q.scheme THEN "invalid_qr_format"
    ELSE IF ~q.json THEN "json_syntax_error"
    ELSE IF \/ ~Truthy(q.v) \/ q.e = 0 \/ q.t = 0
            \/ q.a = <<>> \/ q.c = -1 \/ q.ts \in {-1, 0}
    THEN "malformed_qr_data"
    ELSE IF q.v # 1 THEN "unsupported_qr_version"
    ELSE IF q.t < 0 THEN "invalid_ticket_number"
    ELSE IF q.ts <= 0 THEN "invalid_timestamp"
    ELSE "none"

\* what the gate client sends for a scanned "parchi:" code
normalizeQrStringForServer(q) ==
    [scheme |-> FALSE, json |-> TRUE, v |-> 0, e |-> q.e, t |-> q.t, a |-> <<>>,
     m |-> IF q.a # <<>> THEN q.a ELSE q.m, ts |-> q.ts, c |-> q.c]

\* raw JSON naming a ticket by its id, or by its full asset key
ByTicketId(t) == [NoQr EXCEPT !.t = -t]
ByMintKey(t) == [NoQr EXCEPT !.m = TicketMint(t)]

BasePayloads ==
    UNION {{generateTicketQR(t), normalizeQrStringForServer(generateTicketQR(t)),
            ByTicketId(t), ByMintKey(t)} : t \in TicketIds}

\* the payloads of the first ticket with one field replaced
Tampered ==
    UNION {   {[q EXCEPT !.scheme = x] : x \in BOOLEAN}
        \cup  {[q EXCEPT !.v = x] : x \in {0, VZero, 1, 2}}
        \cup  {[q EXCEPT !.e = x] : x \in {0, BogusEvent} \cup Events}
        \cup  {[q EXCEPT !.t = x] : x \in {0, TicketNumber(1) + 1, -BogusTicket} \cup {-t : t \in TicketIds}}
        \cup  {[q EXCEPT !.a = x] : x \in {<<>>, <<8>>}}
        \cup  {[q EXCEPT !.m = x] : x \in {<<>>, <<2>>, <<8>>}}
        \cup  {[q EXCEPT !.ts = x] : x \in {-1, 0, IssuedAt(1) + 1}}
        \cup  {[q EXCEPT !.c = x] : x \in {-1} \cup 0..(HashMod - 1)}
        : q \in {generateTicketQR(1), ByTicketId(1)}}

\* the decoded texts the scan endpoint is called with: as printed, as
\* rewritten by the gate client, tampered, and one that is not JSON
QrInputs == BasePayloads \cup Tampered \cup {[NoQr EXCEPT !.json = FALSE]}

(* ------------------------ POST /api/gate/scan -------------------------- *)
\* qrPayload?.m ?? ... ?? qrPayload?.a
mintPubkeyRaw(q) == IF q.m # <<>> THEN q.m ELSE q.a

\* the checks made before any ticket is looked up
ScanParseError(q, clock) ==
    IF ~q.json THEN "invalid_qr_format"
    ELSE IF q.t = 0 /\ mintPubkeyRaw(q) = <<>> THEN "qr_missing_fields"
    ELSE IF Truthy(q.v) /\ q.v # 1 THEN "unsupported_qr_version"
    ELSE IF q.ts # -1 /\ clock - q.ts > maxAge THEN "qr_expired"
    ELSE "none"

\* the rows prisma.ticket.findUnique / findFirst may return for the payload
ScanLookup(q) ==
    LET mp == mintPubkeyRaw(q)
        byId == IF q.t < 0 THEN {t \in TicketIds : t = -q.t} ELSE {}
        byMint == IF mp = <<>> THEN {}
                  ELSE IF Len(mp) * ChunkChars <= ShortMintChars
                       THEN {t \in TicketIds : StartsWith(TicketMint(t), mp)}
                       ELSE {t \in TicketIds : TicketMint(t) = mp}
    IN  IF byId # {} THEN byId ELSE byMint

\* typeof t === 'number' ? t : Number(t ?? 0)
ticketNumberForChecksum(q) == IF q.t >= 0 THEN q.t ELSE NaN

\* eventIdFromQr ?? ticket.eventId
ScanEventId(q, t) == IF q.e # 0 THEN q.e ELSE TicketEvent(t)

\* the checks made on the ticket row that was found
ScanTicketError(q, t, status) ==
    IF /\ q.c # -1
       /\ q.ts > 0
       /\ q.c # calculateChecksumServer(ScanEventId(q, t), ticketNumberForChecksum(q), TicketMint(t), q.ts)
    THEN "qr_tampered"
    ELSE IF /\ q.m # <<>>
            /\ Lower(q.m) # Lower(TicketMint(t))
            /\ ~(Len(q.m) * ChunkChars <= ShortMintChars /\ StartsWith(Lower(TicketMint(t)), Lower(q.m)))
    THEN "mint_mismatch"
    ELSE IF status # "ACTIVE" THEN "ticket_not_active"
    ELSE "none"

(* --------------------------- ledger assets ----------------------------- *)
\* An asset of the ledger: whether the account exists, whether it carries a
\* PermanentFreezeDelegate plugin with frozen = true, and the keys of its
\* Attributes plugin ("claimed" stands for claimed = 'true').
NoAsset == [exists |-> FALSE, freeze |-> FALSE, keys |-> {}]

\* the asset that the transaction built by createTicketAsset creates
createTicketAsset(eventId, ticketNumber, qrData) ==
    [exists |-> TRUE, freeze |-> FALSE,
     keys |-> {"event_id", "ticket_number", "qr_data"}]

\* what an account at the address stored in Ticket.mintPubkey can hold
Assets ==
    {NoAsset} \cup
    {[exists |-> TRUE, freeze |-> f, keys |-> k] :
        f \in BOOLEAN,
        k \in {{"event_id", "ticket_number", "qr_data"},
               {"event_id", "ticket_number", "qr_data", "claimed"}}}

\* plugins?.some(p => p.type === 'PermanentFreezeDelegate' && p.frozen === true)
isSoulbound(asset) == asset.freeze

\* fetchTicketAsset: "ok", or the error it throws; up = the RPC answers
fetchTicketAsset(asset, up) ==
    IF ~up THEN "fetch_failed"
    ELSE IF ~asset.exists THEN "asset_not_found"
    ELSE IF ~isSoulbound(asset) THEN "not_soulbound"
    ELSE "ok"

getTicketAttributes(asset) == asset.keys

isTicketClaimed(asset) == "claimed" \in getTicketAttributes(asset)

(* ------------------------------ state ---------------------------------- *)
\* tickets  : the committed Ticket rows, per ticket id (status, usedAt)
\* gv       : the committed GateVerification rows; verificationId = index
\* lock     : whether a transaction holds the row lock of a ticket
\* now      : the server clock
\* inflight : the requests being handled, each with its position (a bag:
\*            two clients may send the same request at the same time)
\* calls    : the number of requests received so far
\* last     : the HTTP response on its way to the client, with its request
\* okCount  : per ticket, how many verify calls answered success (up to 2)
\* okByVid  : the verificationIds with which a verify call answered success
\* ledger   : per ticket, the asset at the address in its mintPubkey
\* Each request also remembers, for the properties only, whether the payload
\* of a scan carried the checksum of its ticket (sum) and for which ticket
\* that payload was printed (printed, 0 = for none), to which ticket the
\* request resolved (rt, kept in last too), whether the
\* verificationId of a verify had already answered success when the request
\* was received (prior) and the status its ticket had at that moment (was).
\* The result of a call of the ticket verifier or of the codec is kept in
\* last as well, with the text it was given (qr), the arguments of the
\* encoder (args) and whether the ledger RPC answered (up); the result of a
\* check of the security validator is kept with the answer of its lookup
\* (lookup).

\* the gate client sends its STAFF_ID with every request
StaffIds == {1}

\* no lookup of a security check
NoLookup == [kind |-> "none", n |-> 0, can |-> FALSE]

\* no arguments of generateTicketQR
NoArgs == [eventId |-> 0, ticketNumber |-> 0, assetPubkey |-> <<>>, timestamp |-> 0]

NewCall ==
    [op |-> "none", pc |-> "new", tid |-> 0, vid |-> 0, staff |-> 0,
     rt |-> 0, ev |-> 0, usedAt |-> 0, sum |-> FALSE, printed |-> 0,
     prior |-> FALSE, was |-> "NONE"]

NoResponse ==
    [op |-> "none", res |-> "none", tid |-> 0, vid |-> 0, rt |-> 0, ticketId |-> 0,
     verificationId |-> 0, sum |-> FALSE, printed |-> 0,
     prior |-> FALSE, was |-> "NONE", up |-> TRUE, qr |-> NoQr,
     args |-> NoArgs, lookup |-> NoLookup]

\* sale   : the event on sale: the number of its tickets that are ACTIVE or
\*          USED (minted), how many purchases were started, and per buyer
\*          the position of purchaseTicket, the count it read and how its
\*          last purchase ended
\* client : the gate page: the lastScan state, the lastScan captured by the
\*          handleScan that the scanner calls (closure), the status shown,
\*          the flows waiting for the scan and for the verify answer, and,
\*          for the properties only, the text of the current run of camera
\*          callbacks (run) and how many flows that run started (started,
\*          up to 2)

\* the people buying a ticket of the event on sale
Buyers == 1..NBuyers

\* capacity of the event on sale
Capacity == 2

\* the event is published and nothing is sold yet
OnSale ==
    [minted |-> 0, purchases |-> 0,
     buyer |-> [b \in Buyers |-> [pc |-> "idle", minted |-> 0, out |-> "none"]]]

\* a decoded text is <<>> when it is blank and <<q>> for the payload q;
\* lastScan is <<>> for null and <<text>> for a text
Texts == {<<>>} \cup {<<generateTicketQR(t)>> : t \in TicketIds}

\* the gate page as mounted
useState ==
    [lastScan |-> <<>>, closure |-> <<>>, status |-> "idle",
     scan |-> 0, verify |-> 0, run |-> <<>>, started |-> 0]

\* no record, no request and no response yet
Idle ==
    /\ sale = OnSale
    /\ client = useState
    /\ gv = <<>>
    /\ lock = [t \in TicketIds |-> FALSE]
    /\ now = StartTime
    /\ inflight = EmptyBag
    /\ calls = 0
    /\ last = NoResponse
    /\ okCount = [t \in TicketIds |-> 0]
    /\ okByVid = {}

\* the rows when the gate opens: every ticket sold and ACTIVE
GateOpens ==
    /\ tickets = [t \in TicketIds |-> [status |-> "ACTIVE", usedAt |-> 0]]
    /\ Idle

\* the ticket that the organizer cancelled or refunded before the gate opens
CancelledTicket == 1

\* the gate opens after CancelledTicket was set to CANCELLED or REFUNDED
\* through the status endpoint
InitCancelled ==
    /\ \E status \in {"CANCELLED", "REFUNDED"} :
         tickets = [t \in TicketIds |->
                      [status |-> IF t = CancelledTicket THEN status ELSE "ACTIVE",
                       usedAt |-> 0]]
    /\ Idle
    /\ ledger = [t \in TicketIds |->
                   createTicketAsset(TicketEvent(t), TicketNumber(t), generateTicketQR(t))]

\* every asset as minted by the purchase flow
Init ==
    /\ GateOpens
    /\ ledger = [t \in TicketIds |->
                   createTicketAsset(TicketEvent(t), TicketNumber(t), generateTicketQR(t))]

\* any asset, or none, at the address of each ticket
InitChain ==
    /\ GateOpens
    /\ ledger \in [TicketIds -> Assets]

\* the server takes a new request while a handler and the budget are free
Accept ==
    /\ BagCardinality(inflight) < NProcs
    /\ calls < MaxCalls
    /\ calls' = calls + 1

\* the requests at position pc of operation op
At(op, pc) == {c \in BagToSet(inflight) : c.op = op /\ c.pc = pc}

\* NextResponse.json(...): the handler of request c answers and ends
Respond(c, res, ticketId, verificationId) ==
    /\ last = NoResponse
    /\ last' = [op |-> c.op, res |-> res, tid |-> c.tid, vid |-> c.vid, rt |-> c.rt,
                ticketId |-> ticketId, verificationId |-> verificationId,
                sum |-> c.sum, printed |-> c.printed,
                prior |-> c.prior, was |-> c.was, up |-> TRUE, qr |-> NoQr,
                args |-> NoArgs, lookup |-> NoLookup]
    /\ inflight' = inflight (-) SetToBag({c})
    /\ UNCHANGED <<ledger, sale, client>>

\* the handler of request c goes on to its next statement as d
Continue(c, d) ==
    /\ last = NoResponse
    /\ last' = NoResponse
    /\ inflight' = (inflight (-) SetToBag({c})) (+) SetToBag({d})
    /\ UNCHANGED <<ledger, sale, client>>

\* the response reaches the client
Deliver ==
    /\ last # NoResponse
    /\ last' = NoResponse
    /\ UNCHANGED <<tickets, gv, lock, now, inflight, calls, okCount, okByVid,
                   ledger, sale, client>>

(* ------------------- POST /api/gate/scan: the steps -------------------- *)
\* the payload carries the checksum of the ticket it resolved to
ChecksumOf(q, t) ==
    q.c # -1 /\ q.c = calculateChecksum(q.e, q.t, TicketMint(t), q.ts)

\* the ticket whose printed code, as printed or as rewritten by the gate
\* client, is the payload; 0 when it is no ticket's code
PrintedFor(q) ==
    LET ts == {t \in TicketIds :
                 q \in {generateTicketQR(t),
                        normalizeQrStringForServer(generateTicketQR(t))}}
    IN  IF ts = {} THEN 0 ELSE CHOOSE t \in ts : TRUE

\* parse the payload, look the ticket up and check it, for a text of Q
ScanFrom(Q) ==
    /\ Accept
    /\ \E q \in Q, staff \in StaffIds :
         LET c == [NewCall EXCEPT !.op = "scan", !.staff = staff,
                                  !.printed = PrintedFor(q)]
             perr == ScanParseError(q, now)
         IN  IF perr # "none" THEN Respond(c, perr, 0, 0)
             ELSE IF ScanLookup(q) = {} THEN Respond(c, "ticket_not_found", 0, 0)
             ELSE \E t \in ScanLookup(q) :
                    LET terr == ScanTicketError(q, t, tickets[t].status)
                    IN  IF terr # "none" THEN Respond([c EXCEPT !.rt = t], terr, 0, 0)
                        ELSE Continue(c, [c EXCEPT !.pc = "s_insert", !.rt = t,
                                                   !.ev = ScanEventId(q, t),
                                                   !.sum = ChecksumOf(q, t)])
    /\ UNCHANGED <<tickets, gv, lock, now, okCount, okByVid>>

ScanResolve == ScanFrom(QrInputs)

\* a scan that redeems the ticket when it stores its record
ScanInsertRedeems(c) ==
    /\ c \in At("scan", "s_insert")
    /\ \E stored \in {b \in BOOLEAN : b => c.ev \in Events} :
         IF stored
         THEN /\ gv' = Append(gv, [eventId |-> c.ev, ticketId |-> c.rt,
                                   verifierPubkey |-> c.staff,
                                   status |-> "PENDING", verifiedAt |-> 0])
              /\ tickets' = [tickets EXCEPT ![c.rt] = [status |-> "USED", usedAt |-> now]]
              /\ Respond(c, "scan_ok", c.rt, Len(gv) + 1)
         ELSE /\ gv' = gv
              /\ tickets' = tickets
              /\ Respond(c, "scan_ok", c.rt, 0)
    /\ UNCHANGED <<lock, now, calls, okCount, okByVid>>

\* prisma.gateVerification.create inside try/catch, then the response
ScanInsert(c) ==
    /\ c \in At("scan", "s_insert")
    /\ \E stored \in {b \in BOOLEAN : b => c.ev \in Events} :
         IF stored
         THEN /\ gv' = Append(gv, [eventId |-> c.ev, ticketId |-> c.rt,
                                   verifierPubkey |-> c.staff,
                                   status |-> "PENDING", verifiedAt |-> 0])
              /\ Respond(c, "scan_ok", c.rt, Len(gv) + 1)
         ELSE /\ gv' = gv
              /\ Respond(c, "scan_ok", c.rt, 0)
    /\ UNCHANGED <<tickets, lock, now, calls, okCount, okByVid>>

(* ------------------ POST /api/gate/verify: the steps ------------------- *)
\* body checks, and the lookup of the record when only its id was sent
VerifyBegin ==
    /\ Accept
    /\ \E tid \in {0, BogusTicket} \cup TicketIds,
          vid \in {0, BogusVid} \cup (1..Len(gv)),
          staff \in StaffIds :
         LET rt == IF tid # 0 THEN tid
                   ELSE IF vid \in 1..Len(gv) THEN gv[vid].ticketId ELSE 0
             c == [NewCall EXCEPT !.op = "verify", !.tid = tid, !.vid = vid,
                                  !.staff = staff, !.prior = (vid \in okByVid),
                                  !.was = IF rt \in TicketIds
                                          THEN tickets[rt].status ELSE "NONE"]
         IN  IF tid = 0 /\ vid = 0
             THEN Respond(c, "missing_ticket_or_verification_id", 0, 0)
             ELSE IF tid = 0 /\ vid \notin 1..Len(gv)
             THEN Respond(c, "verification_record_not_found", 0, 0)
             ELSE Continue(c, [c EXCEPT !.pc = "v_update", !.rt = rt])
    /\ UNCHANGED <<tickets, gv, lock, now, okCount, okByVid>>

\* markUsed as a read followed by a write: no wait for the row lock
markUsedReadThenWrite(c) ==
    /\ c \in At("verify", "v_update")
    /\ IF c.rt \notin TicketIds \/ tickets[c.rt].status # "ACTIVE"
       THEN /\ Respond(c, "already_redeemed_or_invalid", 0, 0)
            /\ lock' = lock
       ELSE /\ lock' = [lock EXCEPT ![c.rt] = TRUE]
            /\ Continue(c, [c EXCEPT !.pc = "v_record", !.usedAt = now])
    /\ UNCHANGED <<tickets, gv, now, calls, okCount, okByVid>>

\* markUsed without the condition on the status
markUsedAnyStatus(c) ==
    /\ c \in At("verify", "v_update")
    /\ IF c.rt \notin TicketIds
       THEN /\ Respond(c, "already_redeemed_or_invalid", 0, 0)
            /\ lock' = lock
       ELSE /\ ~lock[c.rt]
            /\ lock' = [lock EXCEPT ![c.rt] = TRUE]
            /\ Continue(c, [c EXCEPT !.pc = "v_record", !.usedAt = now])
    /\ UNCHANGED <<tickets, gv, now, calls, okCount, okByVid>>

\* tx.ticket.updateMany({where: {ticketId, status: 'ACTIVE'}, data: USED}):
\* a row that another transaction has updated and not yet committed makes
\* the statement wait; its write stays private until the commit
markUsed(c) ==
    /\ c \in At("verify", "v_update")
    /\ IF c.rt \notin TicketIds \/ tickets[c.rt].status # "ACTIVE"
       THEN /\ Respond(c, "already_redeemed_or_invalid", 0, 0)
            /\ lock' = lock
       ELSE /\ ~lock[c.rt]
            /\ lock' = [lock EXCEPT ![c.rt] = TRUE]
            /\ Continue(c, [c EXCEPT !.pc = "v_record", !.usedAt = now])
    /\ UNCHANGED <<tickets, gv, now, calls, okCount, okByVid>>

\* a transaction that marks every record of the ticket VERIFIED
VerifiedRowEveryRecord(c, rows, clock) ==
    IF c.vid # 0
    THEN [i \in 1..Len(rows) |->
            IF rows[i].ticketId = c.rt
            THEN [rows[i] EXCEPT !.status = "VERIFIED", !.verifiedAt = clock]
            ELSE rows[i]]
    ELSE Append(rows, [eventId |-> TicketEvent(c.rt), ticketId |-> c.rt,
                       verifierPubkey |-> c.staff, status |-> "VERIFIED",
                       verifiedAt |-> clock])

\* the row the transaction leaves in GateVerification
VerifiedRow(c, rows, clock) ==
    IF c.vid # 0
    THEN [rows EXCEPT ![c.vid] =
            [@ EXCEPT !.status = "VERIFIED", !.verifiedAt = clock,
                      !.verifierPubkey = IF c.staff # 0 THEN c.staff ELSE @]]
    ELSE Append(rows, [eventId |-> TicketEvent(c.rt), ticketId |-> c.rt,
                       verifierPubkey |-> c.staff, status |-> "VERIFIED",
                       verifiedAt |-> clock])

\* a transaction that updates the record named by verificationId without
\* comparing its ticketId with the ticket just marked used
VerifyRecordAnyPairing(c) ==
    /\ c \in At("verify", "v_record")
    /\ lock' = [lock EXCEPT ![c.rt] = FALSE]
    /\ IF c.vid # 0 /\ c.vid \notin 1..Len(gv)
       THEN /\ Respond(c, "verification_record_not_found", 0, 0)
            /\ UNCHANGED <<tickets, gv, okCount, okByVid>>
       ELSE /\ tickets' = [tickets EXCEPT ![c.rt] =
                              [status |-> "USED", usedAt |-> c.usedAt]]
            /\ gv' = VerifiedRow(c, gv, now)
            /\ Respond(c, "verified_and_used", c.rt,
                       IF c.vid # 0 THEN c.vid ELSE Len(gv) + 1)
            /\ okCount' = [okCount EXCEPT ![c.rt] = IF @ < 2 THEN @ + 1 ELSE @]
            /\ okByVid' = IF c.vid # 0 THEN okByVid \cup {c.vid} ELSE okByVid
    /\ UNCHANGED <<now, calls>>

\* steps 2-4 outside the transaction: a throw leaves the ticket USED
VerifyRecordNoRollback(c) ==
    /\ c \in At("verify", "v_record")
    /\ lock' = [lock EXCEPT ![c.rt] = FALSE]
    /\ tickets' = [tickets EXCEPT ![c.rt] = [status |-> "USED", usedAt |-> c.usedAt]]
    /\ IF c.vid # 0 /\ c.vid \notin 1..Len(gv)
       THEN /\ Respond(c, "verification_record_not_found", 0, 0)
            /\ UNCHANGED <<gv, okCount, okByVid>>
       ELSE IF c.vid # 0 /\ gv[c.vid].ticketId # c.rt
       THEN /\ Respond(c, "verification_ticket_mismatch", 0, 0)
            /\ UNCHANGED <<gv, okCount, okByVid>>
       ELSE /\ gv' = VerifiedRow(c, gv, now)
            /\ Respond(c, "verified_and_used", c.rt,
                       IF c.vid # 0 THEN c.vid ELSE Len(gv) + 1)
            /\ okCount' = [okCount EXCEPT ![c.rt] = IF @ < 2 THEN @ + 1 ELSE @]
            /\ okByVid' = IF c.vid # 0 THEN okByVid \cup {c.vid} ELSE okByVid
    /\ UNCHANGED <<now, calls>>

\* steps 2-4 of the transaction and its commit: the record named by
\* verificationId is checked and updated, or a new record is created, the
\* writes become visible together and the handler answers; a throw rolls
\* the ticket update back
VerifyRecord(c) ==
    /\ c \in At("verify", "v_record")
    /\ lock' = [lock EXCEPT ![c.rt] = FALSE]
    /\ IF c.vid # 0 /\ c.vid \notin 1..Len(gv)
       THEN /\ Respond(c, "verification_record_not_found", 0, 0)
            /\ UNCHANGED <<tickets, gv, okCount, okByVid>>
       ELSE IF c.vid # 0 /\ gv[c.vid].ticketId # c.rt
       THEN /\ Respond(c, "verification_ticket_mismatch", 0, 0)
            /\ UNCHANGED <<tickets, gv, okCount, okByVid>>
       ELSE /\ tickets' = [tickets EXCEPT ![c.rt] =
                              [status |-> "USED", usedAt |-> c.usedAt]]
            /\ gv' = VerifiedRow(c, gv, now)
            /\ Respond(c, "verified_and_used", c.rt,
                       IF c.vid # 0 THEN c.vid ELSE Len(gv) + 1)
            /\ okCount' = [okCount EXCEPT ![c.rt] = IF @ < 2 THEN @ + 1 ELSE @]
            /\ okByVid' = IF c.vid # 0 THEN okByVid \cup {c.vid} ELSE okByVid
    /\ UNCHANGED <<now, calls>>

\* a statement of the transaction throws something else (storage error,
\* transaction timeout): rollback and server_error
VerifyAbort(c) ==
    /\ c \in At("verify", "v_update") \cup At("verify", "v_record")
    /\ lock' = IF c.pc = "v_record" THEN [lock EXCEPT ![c.rt] = FALSE] ELSE lock
    /\ Respond(c, "server_error", 0, 0)
    /\ UNCHANGED <<tickets, gv, now, calls, okCount, okByVid>>

(* ------------- PATCH /api/tickets/[id]/update-status ------------------- *)
\* prisma.ticket.update({where: {ticketId}, data: {status}}), status from
\* the body with default 'ACTIVE'
PATCH(t, status) ==
    /\ last = NoResponse
    /\ calls < MaxCalls
    /\ calls' = calls + 1
    /\ ~lock[t]
    /\ tickets' = [tickets EXCEPT ![t].status = status]
    /\ last' = NoResponse
    /\ UNCHANGED <<gv, lock, now, inflight, okCount, okByVid, ledger, sale, client>>

\* time passes
Tick ==
    /\ last = NoResponse
    /\ now < MaxNow
    /\ now' = now + 1
    /\ last' = NoResponse
    /\ UNCHANGED <<tickets, gv, lock, inflight, calls, okCount, okByVid, ledger, sale, client>>

(* ------------------ the codec called on its own ------------------------ *)
\* generateTicketQR(eventId, ticketNumber, assetPubkey) at the clock
Encode ==
    /\ last = NoResponse
    /\ \E eventId \in {0} \cup Events, ticketNumber \in {0, 1, TicketNumber(1)},
          assetPubkey \in {<<>>, <<2>>} \cup {TicketMint(t) : t \in TicketIds} :
         last' = [NoResponse EXCEPT
                    !.op = "generateTicketQR",
                    !.qr = encodeTicketQR(eventId, ticketNumber, assetPubkey, now),
                    !.args = [eventId |-> eventId, ticketNumber |-> ticketNumber,
                              assetPubkey |-> assetPubkey, timestamp |-> now]]
    /\ UNCHANGED <<tickets, gv, lock, now, inflight, calls, okCount, okByVid, ledger, sale, client>>

\* parseQRCode(q): res is "none" when it returns the payload of q
Decode(q) ==
    /\ last' = [last EXCEPT !.op = "parseQRCode", !.res = parseQRCode(q), !.qr = q]
    /\ UNCHANGED <<tickets, gv, lock, now, inflight, calls, okCount, okByVid, ledger, sale, client>>

\* the text just encoded is decoded
DecodeEncoded == last.op = "generateTicketQR" /\ Decode(last.qr)

\* any text is decoded
DecodeScanned == last = NoResponse /\ \E q \in QrInputs : Decode(q)

(* ------------------------- TicketVerifier ------------------------------ *)
\* `Invalid QR code: ${message of parseQRCode}`
parseQR(q) == parseQRCode(q)

validateQRData(q, clock) ==
    IF clock - q.ts > maxAge THEN "qr_expired" ELSE "none"

\* the rows prisma.ticket.findFirst of by-qr may return
ByQrRows(eventId, assetPrefix) ==
    {t \in TicketIds : TicketEvent(t) = eventId /\ StartsWith(TicketMint(t), assetPrefix)}

\* POST /api/tickets/by-qr, the HTTP status: the row that is found includes
\* its event, whose priceLamports is a BigInt that NextResponse.json cannot
\* serialise; the throw is caught and answered with 500
byQrPOST(eventId, ticketNumber, assetPrefix) ==
    IF eventId = 0 \/ ticketNumber = 0 \/ assetPrefix = <<>> THEN 400
    ELSE IF ByQrRows(eventId, assetPrefix) = {} THEN 404
    ELSE 500

\* `${undefined}` in a template literal
Undefined == <<9>>

\* validateQRIntegrity(qrData, fullAssetPubkey)
validateQRIntegrity(q, fullAssetPubkey, clock) ==
    IF clock - q.ts > maxAge THEN "qr_expired"
    ELSE IF q.c # calculateChecksum(q.e, q.t, fullAssetPubkey, q.ts) THEN "qr_tampered"
    ELSE IF fullAssetPubkey = Undefined THEN "type_error"
    ELSE IF ~StartsWith(fullAssetPubkey, q.a) THEN "asset_pubkey_mismatch"
    ELSE "none"

\* the response of by-qr spreads the Prisma row, which has a mintPubkey and
\* no asset_pubkey
findTicketInDatabase(q, clock) ==
    LET status == byQrPOST(q.e, q.t, q.a)
    IN  IF status = 404 THEN "ticket_not_found"
        ELSE IF status # 200 THEN "database_lookup_failed"
        ELSE validateQRIntegrity(q, Undefined, clock)

\* every throw inside, that of a failed fetch included, is thrown again
verifyOnChain(asset, up) ==
    LET thrown == IF fetchTicketAsset(asset, up) # "ok" THEN fetchTicketAsset(asset, up)
                  ELSE IF ~({"event_id", "ticket_number"} \subseteq getTicketAttributes(asset))
                       THEN "missing_required_attributes"
                  ELSE "none"
    IN  IF thrown # "none" THEN "onchain_verification_failed" ELSE "none"

\* the on-chain check throws inside its own try; the catch only warns
checkAttendanceStatus(row, asset, up) ==
    IF row.usedAt # 0 THEN "already_checked_in"
    ELSE LET thrown == IF fetchTicketAsset(asset, up) # "ok" THEN fetchTicketAsset(asset, up)
                       ELSE IF isTicketClaimed(asset) THEN "already_used_on_chain"
                       ELSE "none"
         IN  IF thrown # "none" THEN "none" ELSE "none"

\* PATCH /api/tickets/[id]/claim: the row it leaves
claimPATCH(row, clock) == [status |-> "USED", usedAt |-> clock]

\* the result of a verifier call, as kept in last
VerifierResult(op, res, q, t, up) ==
    [NoResponse EXCEPT !.op = op, !.res = res, !.qr = q, !.ticketId = t,
                       !.printed = PrintedFor(q), !.up = up,
                       !.was = IF PrintedFor(q) \in TicketIds
                               THEN tickets[PrintedFor(q)].status ELSE "NONE"]

\* TicketVerifier.verifyTicket(qrString, staffWallet): steps 1 to 8, and the
\* catch that answers {success: false}
verifyTicket ==
    /\ last = NoResponse
    /\ \E q \in QrInputs, up \in BOOLEAN :
         LET fail(res) == /\ last' = VerifierResult("verifyTicket", res, q, 0, up)
                          /\ tickets' = tickets
         IN  IF parseQR(q) # "none" THEN fail(parseQR(q))
             ELSE IF validateQRData(q, now) # "none" THEN fail(validateQRData(q, now))
             ELSE IF findTicketInDatabase(q, now) # "none"
                  THEN fail(findTicketInDatabase(q, now))
             ELSE \E t \in ByQrRows(q.e, q.a) :
                    IF verifyOnChain(ledger[t], up) # "none"
                    THEN fail(verifyOnChain(ledger[t], up))
                    ELSE IF checkAttendanceStatus(tickets[t], ledger[t], up) # "none"
                    THEN fail(checkAttendanceStatus(tickets[t], ledger[t], up))
                    ELSE /\ tickets' = [tickets EXCEPT ![t] = claimPATCH(@, now)]
                         /\ last' = VerifierResult("verifyTicket", "success", q, t, up)
    /\ UNCHANGED <<gv, lock, now, inflight, calls, okCount, okByVid, ledger, sale, client>>

\* TicketVerifier.verifyOnChain called with the asset key of ticket t
CallVerifyOnChain ==
    /\ last = NoResponse
    /\ \E t \in TicketIds, up \in BOOLEAN :
         last' = [NoResponse EXCEPT !.op = "verifyOnChain", !.tid = t, !.up = up,
                                    !.res = verifyOnChain(ledger[t], up)]
    /\ UNCHANGED <<tickets, gv, lock, now, inflight, calls, okCount, okByVid, ledger, sale, client>>

\* TicketVerifier.checkAttendanceStatus called with the row of ticket t
CallCheckAttendanceStatus ==
    /\ last = NoResponse
    /\ \E t \in TicketIds, up \in BOOLEAN :
         last' = [NoResponse EXCEPT !.op = "checkAttendanceStatus", !.tid = t, !.up = up,
                                    !.res = checkAttendanceStatus(tickets[t], ledger[t], up)]
    /\ UNCHANGED <<tickets, gv, lock, now, inflight, calls, okCount, okByVid, ledger, sale, client>>

\* the transaction built by createTicketAsset for ticket t is confirmed
confirmMint(t) ==
    /\ last = NoResponse
    /\ ledger[t] = NoAsset
    /\ ledger' = [ledger EXCEPT ![t] =
                    createTicketAsset(TicketEvent(t), TicketNumber(t), generateTicketQR(t))]
    /\ last' = NoResponse
    /\ UNCHANGED <<tickets, gv, lock, now, inflight, calls, okCount, okByVid,
                   sale, client>>

(* ------------------- purchaseTicket, one event ------------------------- *)
\* steps 1 and 2: getEventForPurchase reads the count of ACTIVE and USED
\* tickets, and the purchase stops when it has reached the capacity
purchaseTicket(b) ==
    /\ sale.buyer[b].pc = "idle"
    /\ sale.purchases < MaxPurchases
    /\ LET minted == sale.minted
       IN  sale' = [sale EXCEPT
                      !.purchases = @ + 1,
                      !.buyer[b] = IF minted >= Capacity
                                   THEN [pc |-> "idle", minted |-> minted, out |-> "sold_out"]
                                   ELSE [pc |-> "create", minted |-> minted, out |-> "none"]]
    /\ UNCHANGED <<tickets, gv, lock, now, inflight, calls, last, okCount, okByVid,
                   ledger, client>>

\* step 3, POST /api/tickets/create: the route stores an ACTIVE ticket for
\* the event, or fails before it does
ticketsCreatePOST(b) ==
    /\ sale.buyer[b].pc = "create"
    /\ \E ok \in BOOLEAN :
         sale' = [sale EXCEPT
                    !.minted = IF ok THEN @ + 1 ELSE @,
                    !.buyer[b] = [@ EXCEPT !.pc = "idle",
                                           !.out = IF ok THEN "ticket" ELSE "failed"]]
    /\ UNCHANGED <<tickets, gv, lock, now, inflight, calls, last, okCount, okByVid,
                   ledger, client>>

(* ------------------------- ScanPage, QRScanner ------------------------- *)
\* normalizeQrStringForServer(text) of the gate page, on a decoded text
normalizedForServer(text) ==
    IF text = <<>> THEN <<>>
    ELSE IF text[1].scheme /\ text[1].json
    THEN <<normalizeQrStringForServer(text[1])>>
    ELSE text

\* the run of camera callbacks goes on with text, or starts with it
Counted(text, flows) ==
    IF client.run = <<text>>
    THEN [run |-> client.run,
          started |-> IF client.started + flows < 2 THEN client.started + flows ELSE 2]
    ELSE [run |-> <<text>>, started |-> flows]

\* onResultRef.current(text): handleScan up to its first await, with the
\* lastScan of the render whose callback the scanner holds
handleScan(text) ==
    /\ client.scan + client.verify < MaxFlows
    /\ IF normalizedForServer(text) = <<>> \/ <<normalizedForServer(text)>> = client.closure
       THEN client' = [client EXCEPT !.run = Counted(text, 0).run,
                                     !.started = Counted(text, 0).started]
       ELSE client' = [client EXCEPT !.lastScan = <<normalizedForServer(text)>>,
                                     !.status = "processing",
                                     !.scan = @ + 1,
                                     !.run = Counted(text, 1).run,
                                     !.started = Counted(text, 1).started]
    /\ UNCHANGED <<tickets, gv, lock, now, inflight, calls, last, okCount, okByVid,
                   ledger, sale>>

\* the page renders with the lastScan last set and the effect of QRScanner
\* stores the new callback in onResultRef
Render ==
    /\ client.closure # client.lastScan
    /\ client' = [client EXCEPT !.closure = client.lastScan]
    /\ UNCHANGED <<tickets, gv, lock, now, inflight, calls, last, okCount, okByVid,
                   ledger, sale>>

\* the scan answer reaches a flow: it goes on to verify, or shows the error
callScanApi ==
    /\ client.scan > 0
    /\ \E ok \in BOOLEAN :
         client' = [client EXCEPT !.scan = @ - 1,
                                  !.verify = IF ok THEN @ + 1 ELSE @,
                                  !.status = IF ok THEN @ ELSE "error"]
    /\ UNCHANGED <<tickets, gv, lock, now, inflight, calls, last, okCount, okByVid,
                   ledger, sale>>

\* the verify answer reaches a flow, which shows success or the error
callVerifyApi ==
    /\ client.verify > 0
    /\ \E ok \in BOOLEAN :
         client' = [client EXCEPT !.verify = @ - 1,
                                  !.status = IF ok THEN "success" ELSE "error"]
    /\ UNCHANGED <<tickets, gv, lock, now, inflight, calls, last, okCount, okByVid,
                   ledger, sale>>

\* the Reset button
doReset ==
    /\ client' = [client EXCEPT !.lastScan = <<>>, !.status = "idle",
                                !.run = <<>>, !.started = 0]
    /\ UNCHANGED <<tickets, gv, lock, now, inflight, calls, last, okCount, okByVid,
                   ledger, sale>>

(* ------------------------- SecurityValidator --------------------------- *)
\* the answers of the lookup behind a check: the fetch throws, the response
\* is not OK, or it is OK with a body (n = scans_last_minute or
\* recent_verifications, can = can_verify)
Lookups ==
    {[kind |-> k, n |-> 0, can |-> FALSE] : k \in {"throws", "not_ok"}} \cup
    {[kind |-> "ok", n |-> n, can |-> b] :
        n \in {0, DefaultMaxScans - 1, DefaultMaxScans}, b \in BOOLEAN}

\* checkStaffRateLimit that denies when its lookup fails
checkStaffRateLimitFailClosed(resp, maxScansPerMinute) ==
    IF resp.kind = "throws" THEN FALSE
    ELSE IF resp.kind = "not_ok" THEN FALSE
    ELSE resp.n < maxScansPerMinute

checkStaffRateLimit(resp, maxScansPerMinute) ==
    IF resp.kind = "throws" THEN TRUE
    ELSE IF resp.kind = "not_ok" THEN TRUE
    ELSE resp.n < maxScansPerMinute

preventDoubleEntry(resp) ==
    IF resp.kind = "throws" THEN TRUE
    ELSE IF resp.kind = "not_ok" THEN TRUE
    ELSE resp.n = 0

validateStaffPermissions(resp) ==
    IF resp.kind = "throws" THEN FALSE
    ELSE IF resp.kind = "not_ok" THEN FALSE
    ELSE resp.can = TRUE

\* a check of the validator is called and returns a boolean
SecurityCheck ==
    /\ last = NoResponse
    /\ \E resp \in Lookups, op \in {"checkStaffRateLimit", "preventDoubleEntry",
                                    "validateStaffPermissions"} :
         LET allow == CASE op = "checkStaffRateLimit" ->
                               checkStaffRateLimit(resp, DefaultMaxScans)
                        [] op = "preventDoubleEntry" -> preventDoubleEntry(resp)
                        [] op = "validateStaffPermissions" ->
                               validateStaffPermissions(resp)
         IN  last' = [NoResponse EXCEPT !.op = op, !.lookup = resp,
                                        !.res = IF allow THEN "true" ELSE "false"]
    /\ UNCHANGED <<tickets, gv, lock, now, inflight, calls, okCount, okByVid, ledger, sale, client>>

(* --------------------------- specifications ---------------------------- *)
Scan == ScanResolve \/ \E c \in BagToSet(inflight) : ScanInsert(c)

Verify ==
    \/ VerifyBegin
    \/ \E c \in BagToSet(inflight) : \/ markUsed(c)
                                     \/ VerifyRecord(c)
                                     \/ VerifyAbort(c)

UpdateStatus == \E t \in TicketIds, status \in TicketStatus : PATCH(t, status)

\* the gate flow alone
NextGate == Scan \/ Verify \/ Tick \/ Deliver
SpecGate == Init /\ [][NextGate]_vars

\* the gate flow and the status endpoint
Next == Scan \/ Verify \/ UpdateStatus \/ Tick \/ Deliver
Spec == Init /\ [][Next]_vars

\* the scan endpoint called only with texts that lack the "parchi:" tag or
\* whose version is absent or not 1
Untagged == {q \in QrInputs : ~q.scheme \/ q.v # 1}
NextUntagged ==
    \/ ScanFrom(Untagged)
    \/ \E c \in BagToSet(inflight) : ScanInsert(c)
    \/ Tick
    \/ Deliver
SpecUntagged == Init /\ [][NextUntagged]_vars

\* the gate flow after a ticket was cancelled or refunded
SpecCancelled == InitCancelled /\ [][NextGate]_vars

\* concurrent purchases of tickets of one event
Purchase == \E b \in Buyers : purchaseTicket(b) \/ ticketsCreatePOST(b)
NextSale == Purchase
SpecSale == Init /\ [][NextSale]_vars

\* the gate page with its camera scanner
Camera == \E text \in Texts : handleScan(text)
NextClient == Camera \/ Render \/ callScanApi \/ callVerifyApi \/ doReset
SpecClient == Init /\ [][NextClient]_vars

\* the ticket verifier and the codec over any ledger
Codec == Encode \/ DecodeEncoded \/ DecodeScanned
Verifier == verifyTicket \/ CallVerifyOnChain \/ CallCheckAttendanceStatus
Mint == \E t \in TicketIds : confirmMint(t)
NextChain == Codec \/ Verifier \/ SecurityCheck \/ Mint \/ Tick \/ Deliver
SpecChain == InitChain /\ [][NextChain]_vars

TypeOK ==
    /\ \A t \in TicketIds : tickets[t].status \in TicketStatus
    /\ Len(gv) <= MaxCalls
    /\ now \in StartTime..MaxNow
    /\ BagCardinality(inflight) <= NProcs

(* ------------------------------ properties ----------------------------- *)
Records == 1..Len(gv)

\* some record of ticket t is VERIFIED
HasVerified(t) == \E i \in Records : gv[i].ticketId = t /\ gv[i].status = "VERIFIED"

\* the latest response answers a verify request addressed to ticket t: by
\* its ticketId, by the verificationId of one of its records, or by both
VerifyFor(t) ==
    /\ last.op = "verify"
    /\ last.tid \in {0, t}
    /\ last.vid = 0 \/ (last.vid \in Records /\ gv[last.vid].ticketId = t)
    /\ last.tid = t \/ last.vid # 0

\* C1: of the verify calls addressed to one ACTIVE ticket, in any
\* interleaving, exactly one answers success and every other one answers
\* already_redeemed_or_invalid (unless its transaction was aborted by a
\* storage error), and the ticket ends USED.
C1_AtMostOnce ==
    \A t \in TicketIds :
        /\ okCount[t] <= 1
        /\ okCount[t] = 1 => tickets[t].status = "USED"
        /\ (VerifyFor(t) /\ last.res # "server_error") =>
              \/ last.res = "verified_and_used" /\ okCount[t] = 1
              \/ /\ last.res = "already_redeemed_or_invalid"
                 /\ okCount[t] = 1
                 /\ tickets[t].status = "USED"

\* a verify that was received while the ticket was ACTIVE lost the race
C1_Witness ==
    \E t \in TicketIds :
        /\ VerifyFor(t)
        /\ last.was = "ACTIVE"
        /\ last.res = "already_redeemed_or_invalid"
        /\ okCount[t] = 1

\* C2: in every committed state of the gate flow, a ticket is USED if and
\* only if one of its Verification Records is VERIFIED.
C2_AtomicPairing ==
    \A t \in TicketIds : tickets[t].status = "USED" <=> HasVerified(t)

\* a transaction was rolled back after its markUsed and left no trace
C2_Witness ==
    /\ last.res = "verification_ticket_mismatch"
    /\ last.tid \in TicketIds
    /\ tickets[last.tid].status = "ACTIVE"
    /\ \E t \in TicketIds : tickets[t].status = "USED" /\ HasVerified(t)

\* C3: the status of a ticket changes only from ACTIVE to USED, and only in
\* the step in which a verify call answers success.
C3_OnlyRedemption ==
    [][\A t \in TicketIds :
          tickets'[t].status # tickets[t].status =>
             /\ tickets[t].status = "ACTIVE"
             /\ tickets'[t].status = "USED"
             /\ last'.res = "verified_and_used"]_vars

\* C4: a verify call that names only a verificationId with which an earlier
\* verify call answered success answers success again, with the same
\* ticketId and verificationId (unless aborted by a storage error).
C4_IdempotentById ==
    (last.op = "verify" /\ last.tid = 0 /\ last.prior /\ last.res # "server_error") =>
        /\ last.res = "verified_and_used"
        /\ last.verificationId = last.vid
        /\ last.ticketId = gv[last.vid].ticketId

\* a step of a scan request: it answers, or it reaches its next statement
ScanStep ==
    \/ last'.op = "scan"
    \/ \E c \in BagToSet(inflight') :
          c.op = "scan" /\ CopiesIn(c, inflight') > CopiesIn(c, inflight)

\* C5: no step of a scan changes any ticket; the only change a scan makes
\* is the insertion of one PENDING Verification Record.
C5_ScanFrame ==
    [][ScanStep =>
          /\ tickets' = tickets
          /\ \/ gv' = gv
             \/ /\ Len(gv') = Len(gv) + 1
                /\ SubSeq(gv', 1, Len(gv)) = gv
                /\ gv'[Len(gv')].status = "PENDING"]_vars

\* a ticket scanned twice is still ACTIVE
C5_Witness ==
    /\ last.op = "scan" /\ last.res = "scan_ok"
    /\ Cardinality({i \in Records : gv[i].ticketId = last.ticketId
                                    /\ gv[i].status = "PENDING"}) >= 2
    /\ tickets[last.ticketId] = [status |-> "ACTIVE", usedAt |-> 0]

\* a step of a verify request that names a ticketId and no verificationId,
\* received when that ticket was USED
ReVerifyStep(c) ==
    /\ c.op = "verify" /\ c.vid = 0 /\ c.was = "USED"
    /\ CopiesIn(c, inflight') < CopiesIn(c, inflight)

\* C6: a verify call with only the ticketId of a ticket that is already
\* USED answers already_redeemed_or_invalid (server_error if aborted), and
\* none of its steps changes a ticket or a Verification Record.
C6_ReVerifyByTicketId ==
    /\ [](  (last.op = "verify" /\ last.vid = 0 /\ last.was = "USED")
            => last.res \in {"already_redeemed_or_invalid", "server_error"})
    /\ [][(\E c \in BagToSet(inflight) : ReVerifyStep(c)) => (tickets' = tickets /\ gv' = gv)]_vars

\* the second verify of a redeemed ticket was refused
C6_Witness ==
    /\ last.op = "verify" /\ last.vid = 0 /\ last.tid \in TicketIds
    /\ last.was = "USED"
    /\ last.res = "already_redeemed_or_invalid"
    /\ tickets[last.tid].usedAt # 0

\* C7: when a verify call for an existing ticket that names an existing
\* record which is not VERIFIED fails with already_redeemed_or_invalid or
\* verification_ticket_mismatch, that record is REJECTED afterwards.
C7_FailureRecorded ==
    ( /\ last.op = "verify"
      /\ last.tid \in {0} \cup TicketIds
      /\ last.vid \in Records
      /\ last.res \in {"already_redeemed_or_invalid", "verification_ticket_mismatch"}
      /\ gv[last.vid].status # "VERIFIED" )
    => gv[last.vid].status = "REJECTED"

\* C8: a verify call with a ticketId that matches no ticket answers
\* ticket_not_found; otherwise, with a verificationId of another ticket's
\* record, it answers verification_ticket_mismatch, also when the ticket is
\* USED; only then already_redeemed_or_invalid is possible.
C8_CheckOrder ==
    (last.op = "verify" /\ last.tid # 0 /\ last.res # "server_error") =>
        IF last.tid \notin TicketIds
        THEN last.res = "ticket_not_found"
        ELSE (last.vid \in Records /\ gv[last.vid].ticketId # last.tid)
                => last.res = "verification_ticket_mismatch"

\* C9: a scan answers success only for a payload whose checksum is present
\* and equals the checksum of (payload e, payload t, asset key of the
\* resolved ticket, payload ts).
C9_TamperDetected ==
    (last.op = "scan" /\ last.res = "scan_ok") =>
        last.sum

\* C10: every success response of a scan carries the verificationId of a
\* stored PENDING record of the returned ticket.
C10_ScanHasRecord ==
    (last.op = "scan" /\ last.res = "scan_ok") =>
        /\ last.verificationId \in Records
        /\ gv[last.verificationId].status = "PENDING"
        /\ gv[last.verificationId].ticketId = last.ticketId

\* C11: the ticket a scan resolves belongs to the event named by the
\* payload, so every Verification Record has the eventId of the ticket it
\* references.
C11_EventScoped ==
    \A i \in Records : gv[i].eventId = TicketEvent(gv[i].ticketId)

\* C12: a scan of the code printed for a ticket that is ACTIVE answers
\* success with that very ticket (unless the code has expired), also when
\* another ticket's asset key starts with the same 8 characters.
C12_ResolvesToItself ==
    ( /\ last.op = "scan"
      /\ last.printed \in TicketIds
      /\ tickets[last.printed].status = "ACTIVE"
      /\ last.res # "qr_expired" )
    => (last.res = "scan_ok" /\ last.ticketId = last.printed)

\* C13: no step makes a ticket USED while the ledger reports the asset of
\* that ticket as not found or as not soulbound.
C13_ValidAssetOnly ==
    [][\A t \in TicketIds :
         (tickets[t].status # "USED" /\ tickets'[t].status = "USED")
         => fetchTicketAsset(ledger[t], TRUE) \notin {"asset_not_found", "not_soulbound"}]_vars

\* C14: a failed ledger lookup does not abort the verification: verifyOnChain
\* does not throw when the RPC does not answer, and verifyTicket called with
\* the printed, unexpired code of an ACTIVE ticket while the RPC does not
\* answer returns success and leaves the ticket USED.
C14_OracleSoftFailure ==
    /\ (last.op = "verifyOnChain" /\ ~last.up) => last.res = "none"
    /\ ( /\ last.op = "verifyTicket" /\ ~last.up
         /\ last.printed \in TicketIds /\ last.was = "ACTIVE"
         /\ last.qr = generateTicketQR(last.printed)
         /\ now - last.qr.ts <= maxAge )
       => (last.res = "success" /\ tickets[last.printed].status = "USED")

\* C15: the asset that createTicketAsset builds for a ticket is soulbound, so
\* fetchTicketAsset returns it.
C15_MintedSoulbound ==
    \A t \in TicketIds :
        ledger[t] = createTicketAsset(TicketEvent(t), TicketNumber(t), generateTicketQR(t))
        => (isSoulbound(ledger[t]) /\ fetchTicketAsset(ledger[t], TRUE) = "ok")

\* C16: an asset whose claimed attribute is 'true' stops the verification
\* even when usedAt is null: checkAttendanceStatus throws for it, and
\* verifyTicket never returns success for a ticket with such an asset.
C16_ClaimedBlocksEntry ==
    /\ (last.op = "verifyTicket" /\ last.res = "success")
       => ~isTicketClaimed(ledger[last.ticketId])
    /\ ( /\ last.op = "checkAttendanceStatus" /\ last.up
         /\ tickets[last.tid].usedAt = 0
         /\ fetchTicketAsset(ledger[last.tid], TRUE) = "ok"
         /\ isTicketClaimed(ledger[last.tid]) )
       => last.res # "none"

\* the required fields of a payload that are absent
MissingFields(q) ==
    {f \in {"v", "e", "t", "a", "ts", "c"} :
        \/ f = "v" /\ q.v = 0
        \/ f = "e" /\ q.e = 0
        \/ f = "t" /\ q.t = 0
        \/ f = "a" /\ q.a = <<>>
        \/ f = "ts" /\ q.ts = -1
        \/ f = "c" /\ q.c = -1}

\* C17: parseQRCode returns a payload only for a text with the "parchi:" tag
\* whose body is JSON with all of v, e, t, a, ts, c, with v = 1 and t, ts
\* positive numbers; it throws the unsupported-version error for every
\* version other than 1 and the malformed-payload error when the tag or a
\* required field is missing.
C17_DecodeRules ==
    last.op = "parseQRCode" =>
        LET q == last.qr
        IN  /\ last.res = "none" =>
                 ( /\ q.scheme /\ q.json /\ MissingFields(q) = {}
                   /\ q.v = 1 /\ q.t > 0 /\ q.ts > 0 )
            /\ (q.scheme /\ q.json /\ MissingFields(q) = {} /\ q.v # 1)
               => last.res = "unsupported_qr_version"
            /\ (~q.scheme \/ (q.json /\ MissingFields(q) # {}))
               => last.res \in {"invalid_qr_format", "malformed_qr_data"}

\* C18: the scan endpoint rejects every text that lacks the "parchi:" tag or
\* whose version is absent or not 1, and creates no Verification Record
\* for it.
C18_StructuralRules ==
    /\ gv = <<>>
    /\ last.op = "scan" => last.res # "scan_ok"

\* the arguments of generateTicketQR that are valid: a non-empty eventId, a
\* positive ticket number, an asset key of 8 characters or more and a
\* positive time
ValidArgs(x) ==
    /\ x.eventId # 0
    /\ x.ticketNumber > 0
    /\ Len(x.assetPubkey) * ChunkChars >= 8
    /\ x.timestamp > 0

VerifiedRecords(t) ==
    {i \in Records : gv[i].ticketId = t /\ gv[i].status = "VERIFIED"}

\* C20: each ticket has at most one VERIFIED record, however many records
\* reference it.
C20_OneVerifiedRecord ==
    \A t \in TicketIds : Cardinality(VerifiedRecords(t)) <= 1

\* a ticket with several records of which one is VERIFIED, after a second
\* verify call for it was refused
C20_Witness ==
    \E t \in TicketIds :
        /\ Cardinality({i \in Records : gv[i].ticketId = t}) > 1
        /\ Cardinality(VerifiedRecords(t)) = 1
        /\ last.res = "already_redeemed_or_invalid"
        /\ last.tid = t

\* the lookup behind the latest security check threw or was not OK
LookupFailed == last.lookup.kind \in {"throws", "not_ok"}

\* C21 as claimed: each of checkStaffRateLimit, preventDoubleEntry and
\* validateStaffPermissions returns true when its lookup throws or answers
\* with a response that is not OK.
C21_AllFailOpen ==
    ( /\ last.op \in {"checkStaffRateLimit", "preventDoubleEntry",
                      "validateStaffPermissions"}
      /\ LookupFailed )
    => last.res = "true"

\* C21 as amended: checkStaffRateLimit and preventDoubleEntry return true
\* when their lookup throws or is not OK; validateStaffPermissions returns
\* false in that case.
C21_FailOpenButPermissions ==
    /\ (last.op \in {"checkStaffRateLimit", "preventDoubleEntry"} /\ LookupFailed)
       => last.res = "true"
    /\ (last.op = "validateStaffPermissions" /\ LookupFailed)
       => last.res = "false"

\* the rate limit lookup answered with a response that is not OK
C21_Witness ==
    /\ last.op = "checkStaffRateLimit"
    /\ last.lookup.kind = "not_ok"
    /\ last.res = "true"

\* C22: a verify call that answers with an error leaves every ticket row and
\* every record as it was: the step that answers the error changes neither,
\* and no step before it does, since the only steps that change a row are
\* the one that answers verified_and_used and the insert of a scan.
C22_FailedVerifyFrame ==
    [][ /\ (last' # NoResponse /\ last'.op = "verify" /\ last'.res # "verified_and_used")
           => (tickets' = tickets /\ gv' = gv)
        /\ (tickets' # tickets \/ gv' # gv)
           => last'.res \in {"verified_and_used", "scan_ok"} ]_vars

\* a mismatch was found after the conditional update of an ACTIVE ticket,
\* and the ticket is ACTIVE with usedAt null
C22_Witness ==
    /\ last.op = "verify"
    /\ last.res = "verification_ticket_mismatch"
    /\ last.tid \in TicketIds
    /\ last.was = "ACTIVE"
    /\ tickets[last.tid] = [status |-> "ACTIVE", usedAt |-> 0]

\* C23: a verify call that answers verified_and_used changes the row of the
\* resolved ticket and of no other ticket, and changes the record named by
\* verificationId, or adds one record when none is named, and no other
\* record.
C23_SuccessFrame ==
    [][ (last' # NoResponse /\ last'.op = "verify" /\ last'.res = "verified_and_used") =>
          LET t == last'.ticketId
              v == last'.verificationId
          IN  /\ t \in TicketIds
              /\ tickets'[t] # tickets[t]
              /\ tickets'[t].status = "USED"
              /\ \A u \in TicketIds \ {t} : tickets'[u] = tickets[u]
              /\ IF last'.vid # 0
                 THEN /\ v = last'.vid
                      /\ Len(gv') = Len(gv)
                      /\ gv'[v] # gv[v]
                      /\ \A i \in 1..Len(gv) : i # v => gv'[i] = gv[i]
                 ELSE /\ v = Len(gv) + 1
                      /\ Len(gv') = Len(gv) + 1
                      /\ \A i \in 1..Len(gv) : gv'[i] = gv[i] ]_vars

\* a verify by verificationId succeeded while another record of the same
\* ticket is PENDING
C23_Witness ==
    /\ last.op = "verify"
    /\ last.res = "verified_and_used"
    /\ last.vid # 0
    /\ \E i \in Records : /\ i # last.vid
                          /\ gv[i].ticketId = last.ticketId
                          /\ gv[i].status = "PENDING"

\* C24: a PENDING record is inserted only for a ticket that is ACTIVE at the
\* moment of the insert.
C24_PendingOnlyForActive ==
    [][ (Len(gv') = Len(gv) + 1 /\ gv'[Len(gv')].status = "PENDING")
        => tickets[gv'[Len(gv')].ticketId].status = "ACTIVE" ]_vars

\* C26: a ticket that is CANCELLED or REFUNDED is never redeemed by scan and
\* verify calls: its row stays as it is, no record is created for it, every
\* verify call for it answers already_redeemed_or_invalid (server_error
\* when the database fails), no scan that resolves to it answers success
\* and every scan of its printed code that resolves to it answers
\* ticket_not_active.
C26_CancelledNeverRedeemed ==
    LET t == CancelledTicket
    IN  /\ tickets[t].status \in {"CANCELLED", "REFUNDED"}
        /\ tickets[t].usedAt = 0
        /\ \A i \in Records : gv[i].ticketId # t
        /\ (last.op = "verify" /\ last.rt = t)
           => last.res \in {"already_redeemed_or_invalid", "server_error"}
        /\ (last.op = "scan" /\ last.rt = t)
           => last.res \in {"ticket_not_active", "qr_tampered", "mint_mismatch"}
        /\ (last.op = "scan" /\ last.rt = t /\ last.printed = t)
           => last.res = "ticket_not_active"

\* a verify call for the cancelled ticket was refused after other calls
C26_Witness ==
    /\ last.op = "verify"
    /\ last.rt = CancelledTicket
    /\ last.tid = CancelledTicket
    /\ last.res = "already_redeemed_or_invalid"
    /\ tickets[CancelledTicket].status \in {"CANCELLED", "REFUNDED"}
    /\ calls > 1

\* C27: after any sequence of ticket creations, verify calls and
\* update-status calls, a ticket has status USED if and only if its usedAt
\* is set.
C27_UsedIffUsedAt ==
    \A t \in TicketIds : tickets[t].status = "USED" <=> tickets[t].usedAt # 0

\* C28: VERIFIED is terminal under scan and verify calls: a record that is
\* VERIFIED is still there after every step, with the same status,
\* ticketId, verifiedAt and verifierPubkey.
C28_VerifiedTerminal ==
    [][ \A i \in Records :
          gv[i].status = "VERIFIED"
          => /\ i <= Len(gv')
             /\ gv'[i].status = gv[i].status
             /\ gv'[i].ticketId = gv[i].ticketId
             /\ gv'[i].verifiedAt = gv[i].verifiedAt
             /\ gv'[i].verifierPubkey = gv[i].verifierPubkey ]_vars

\* a verify call that paired a VERIFIED record with a different ticket that
\* was and still is ACTIVE has been refused
C28_Witness ==
    /\ last.op = "verify"
    /\ last.vid \in Records
    /\ gv[last.vid].status = "VERIFIED"
    /\ last.tid \in TicketIds
    /\ last.tid # gv[last.vid].ticketId
    /\ last.was = "ACTIVE"
    /\ tickets[last.tid].status = "ACTIVE"
    /\ last.res = "verification_ticket_mismatch"

\* C25: the gate page starts at most one scan-then-verify flow for a run of
\* identical texts delivered by the camera scanner, until Reset.
C25_OneFlowPerRun == client.started <= 1

\* C29: under concurrent purchases for one event, the number of its tickets
\* that are ACTIVE or USED never exceeds its capacity.
C29_CapacityNeverExceeded == sale.minted <= Capacity

====
